---- MODULE Spec2Model ----
(***************************************************************************)
(* Expense tracker (src/Expense_tracker.py): the ledger kept in            *)
(* expenses.xlsx and the three operations that rewrite it (Add Entry,      *)
(* Remove Last Entry, Delete Selected Rows), together with the month/type  *)
(* view and the per-category totals of the summary tab.                    *)
(*                                                                         *)
(* A cell value that can be missing is a record [k, v]:                    *)
(*   k = "str"  a text cell,      v its content                            *)
(*   k = "dt"   a datetime cell,  v = <<year, month, day, hour, minute>>   *)
(*   k = "nan"  a blank cell (NaN / NaT once loaded)                       *)
(* The text of a Date is kept as the tuple of the numbers it spells, so    *)
(* the text "2024-01-05 10:30" is [k |-> "str", v |-> <<2024,1,5,10,30>>]  *)
(* and differs from the datetime [k |-> "dt", v |-> <<2024,1,5,10,30>>].   *)
(* The text of a Month is <<year, month>>; <<>> is the text "NaT".         *)
(* Category and Type are plain strings, Amount (INR) a plain number.       *)
(* Row labels are the 0-based positions of pandas' RangeIndex: the row     *)
(* with label i is rows[i + 1].                                            *)
(***************************************************************************)
EXTENDS Integers, Sequences, FiniteSets, TLC

VARIABLES
    file,       \* expenses.xlsx: [state, columns, rows]
    op,         \* the last script run: "start", "add", "remove",
                \* "delete", "view", or "external" for a change made outside
    entry,      \* new_entry of the last Add Entry (NoEntry when none was built)
    selected,   \* the row labels given to the last Delete Selected Rows
    outcome,    \* the message the last run showed: [kind, cat, amt, n]
    io,         \* the store calls the last run's handler made, in order
    loaded,     \* what load_data() returned at line 110 of the last plain rerun
    fault,      \* the environment fault that hit the last run ("none" if none)
    added       \* the entries given so far, while only Add Entry has been used

vars == <<file, op, entry, selected, outcome, io, loaded, fault, added>>

----------------------------------------------------------------------------
(* Bounds of the model *)

MaxRows == 3

----------------------------------------------------------------------------
(* Constants of the program *)

COLUMNS == <<"Date", "Category", "Amount (INR)", "Type", "Note">>

\* The categories the model offers (two of the twelve of CATEGORIES).
CATEGORIES == <<"Housing", "Food">>

TxnTypes == <<"Expense", "Income/Savings">>

ShowOptions == <<"Expenses Only", "Savings Only", "All">>

\* pandas groupby sorts its keys: the alphabetical rank of a category.
CatRank(c) == IF c = "Food" THEN 1 ELSE 2

----------------------------------------------------------------------------
(* Cell values *)

NaT == [k |-> "nan", v |-> <<>>]

NaNText == [k |-> "nan", v |-> ""]

Text(s) == [k |-> "str", v |-> s]

NaTText == [k |-> "str", v |-> <<>>]

\* The text pandas.read_excel turns into NaN (keep_default_na).
NaValues == {"", "#N/A", "N/A", "NA", "NULL", "NaN", "None", "n/a", "nan", "null"}

IsDateFields(v) ==
    /\ Len(v) = 5
    /\ v[2] \in 1..12
    /\ v[3] \in 1..31
    /\ v[4] \in 0..23
    /\ v[5] \in 0..59

\* datetime.strftime("%Y-%m-%d %H:%M"): the text of a datetime.
Strftime(t) == [k |-> "str", v |-> t]

\* pd.to_datetime(x, errors="coerce") on one value.
ToDatetime(x) ==
    IF x.k = "dt" THEN x
    ELSE IF x.k = "str" /\ IsDateFields(x.v) THEN [k |-> "dt", v |-> x.v]
    ELSE NaT

\* .dt.to_period("M").astype(str) on one value: NaT becomes the text "NaT".
ToPeriodStr(d) ==
    IF d.k = "dt" THEN [k |-> "str", v |-> <<d.v[1], d.v[2]>>]
    ELSE NaTText

\* String order of two Month texts: "NaT" sorts after every "YYYY-MM".
MonthLess(a, b) ==
    IF a = <<>> THEN FALSE
    ELSE IF b = <<>> THEN TRUE
    ELSE a[1] < b[1] \/ (a[1] = b[1] /\ a[2] < b[2])

----------------------------------------------------------------------------
(* Frames and the workbook *)

MkRow(date, cat, amt, typ, note) ==
    [c \in {"Date", "Category", "Amount (INR)", "Type", "Note"} |->
        CASE c = "Date" -> date
          [] c = "Category" -> cat
          [] c = "Amount (INR)" -> amt
          [] c = "Type" -> typ
          [] OTHER -> note]

Range(s) == {s[i] : i \in 1..Len(s)}

\* pd.DataFrame(columns=COLUMNS)
EmptyDf == [columns |-> COLUMNS, rows |-> <<>>]

NoLoad == [columns |-> <<>>, rows |-> <<>>]

Missing == [state |-> "missing", columns |-> <<>>, rows |-> <<>>]

Corrupt == [state |-> "corrupt", columns |-> <<>>, rows |-> <<>>]

\* df.to_excel on one value: NaN, NaT and the empty text leave a blank cell.
WriteCell(c, x) ==
    CASE c = "Note" -> IF x.k = "nan" \/ x.v = "" THEN NaNText ELSE x
      [] c = "Date" -> IF x.k = "nan" THEN NaT ELSE x
      [] c = "Month" -> IF x.k = "nan" THEN NaT ELSE x
      [] OTHER -> x

\* pd.read_excel on one cell: a blank cell and the NA texts are NaN.
ReadCell(c, x) ==
    CASE c = "Note" -> IF x.k = "nan" \/ x.v \in NaValues THEN NaNText ELSE x
      [] OTHER -> x

ToExcel(df) ==
    [state |-> "ok",
     columns |-> df.columns,
     rows |-> [i \in 1..Len(df.rows) |->
                  [c \in DOMAIN df.rows[i] |-> WriteCell(c, df.rows[i][c])]]]

ReadExcel(f) ==
    [columns |-> f.columns,
     rows |-> [i \in 1..Len(f.rows) |->
                  [c \in DOMAIN f.rows[i] |-> ReadCell(c, f.rows[i][c])]]]

\* Lines 32-35: the workbook is created empty when it does not exist.
Initialize(f) == IF f.state = "missing" THEN ToExcel(EmptyDf) ELSE f

\* The file as the handler finds it: created if absent, unless it is removed
\* again before the handler reads it.
AtHandler(f, flt) == IF flt = "deleted" THEN Missing ELSE Initialize(f)

\* load_data whose except branch returns pd.DataFrame() without columns.
LoadDataBareDefault(f, flt) ==
    IF f.state # "ok" \/ flt = "read_fail" THEN NoLoad ELSE ReadExcel(f)

\* load_data: any exception of read_excel gives the empty frame.
LoadData(f, flt) ==
    IF f.state # "ok" \/ flt = "read_fail" THEN EmptyDf ELSE ReadExcel(f)

\* save_data: the workbook is opened for writing (truncated) and written on
\* close. A save that cannot open the file leaves it as it was; a save
\* interrupted after the open leaves a partial workbook.
SaveData(f, df, flt) ==
    CASE flt = "save_denied" -> f
      [] flt = "save_interrupted" -> Corrupt
      [] OTHER -> ToExcel(df)

SaveFails(flt) == flt \in {"save_denied", "save_interrupted"}

----------------------------------------------------------------------------
(* Tab 2: date processing, month selection, type filter, summary *)

\* Lines 126-127: Date is coerced to datetime, Month is (re)computed.
Tab2Row(r) ==
    [c \in (DOMAIN r) \cup {"Month"} |->
        CASE c = "Date" -> ToDatetime(r["Date"])
          [] c = "Month" -> ToPeriodStr(ToDatetime(r["Date"]))
          [] OTHER -> r[c]]

Tab2Data(data) ==
    [columns |-> IF "Month" \in Range(data.columns) THEN data.columns
                 ELSE Append(data.columns, "Month"),
     rows |-> [i \in 1..Len(data.rows) |-> Tab2Row(data.rows[i])]]

RECURSIVE SortedDesc(_)
\* sorted(..., reverse=True) over the distinct Month texts.
SortedDesc(S) ==
    IF S = {} THEN <<>>
    ELSE LET m == CHOOSE x \in S : \A y \in S : ~MonthLess(x, y)
         IN <<m>> \o SortedDesc(S \ {m})

\* Line 132: data["Month"].dropna().unique(), sorted descending.
MonthOptions(data) ==
    SortedDesc({data.rows[i]["Month"].v :
                  i \in {j \in 1..Len(data.rows) : data.rows[j]["Month"].k # "nan"}})

TypeMatches(show, typ) ==
    CASE show = "Expenses Only" -> typ = "Expense"
      [] show = "Savings Only" -> typ # "Expense"
      [] OTHER -> TRUE

\* Lines 135-148: filtered.index, the labels of the rows of the view.
FilteredIndex(data, month, show) ==
    {i \in 0..(Len(data.rows) - 1) :
        /\ data.rows[i + 1]["Month"] = Text(month)
        /\ TypeMatches(show, data.rows[i + 1]["Type"])}

RECURSIVE SumAmounts(_, _)
SumAmounts(rows, S) ==
    IF S = {} THEN 0
    ELSE LET i == CHOOSE x \in S : TRUE
         IN rows[i + 1]["Amount (INR)"] + SumAmounts(rows, S \ {i})

RECURSIVE GroupMax(_, _)
\* .max() in place of .sum()
GroupMax(rows, S) ==
    IF S = {} THEN 0
    ELSE LET i == CHOOSE x \in S : TRUE
             rest == GroupMax(rows, S \ {i})
         IN IF rows[i + 1]["Amount (INR)"] > rest
            THEN rows[i + 1]["Amount (INR)"] ELSE rest

\* .groupby("Category")["Amount (INR)"].sum() for one category.
GroupSum(rows, S) == SumAmounts(rows, S)

RECURSIVE GroupByCategory(_, _, _)
\* The groups in key order, each with its total.
GroupByCategory(rows, idx, cats) ==
    IF cats = {} THEN <<>>
    ELSE LET c == CHOOSE x \in cats : \A y \in cats : CatRank(x) <= CatRank(y)
         IN <<[cat |-> c,
               total |-> GroupSum(rows, {i \in idx : rows[i + 1]["Category"] = c})]>>
            \o GroupByCategory(rows, idx, cats \ {c})

RECURSIVE SortValuesDesc(_)
\* .sort_values(ascending=False): descending, equal totals keep key order.
SortValuesDesc(g) ==
    IF g = <<>> THEN <<>>
    ELSE LET p == CHOOSE i \in 1..Len(g) :
                     /\ \A j \in 1..Len(g) : g[j].total <= g[i].total
                     /\ \A j \in 1..(i - 1) : g[j].total < g[i].total
         IN <<g[p]>> \o SortValuesDesc(SubSeq(g, 1, p - 1) \o SubSeq(g, p + 1, Len(g)))

\* Lines 153-158: grouped, for the rows of the view.
Grouped(data, idx) ==
    SortValuesDesc(GroupByCategory(data.rows, idx,
                                   {data.rows[i + 1]["Category"] : i \in idx}))

----------------------------------------------------------------------------
(* Frame operations of the handlers *)

NoEntry == MkRow(NaT, "", 0, "", NaNText)

Message(kind, cat, amt, n) == [kind |-> kind, cat |-> cat, amt |-> amt, n |-> n]

\* pd.concat([df, pd.DataFrame([new_entry])], ignore_index=True)
Concat(df, new_entry) ==
    LET cols == df.columns \o SelectSeq(COLUMNS, LAMBDA c : c \notin Range(df.columns))
        Fit(r) == [c \in Range(cols) |-> IF c \in DOMAIN r THEN r[c] ELSE NaT]
    IN [columns |-> cols,
        rows |-> Append([i \in 1..Len(df.rows) |-> Fit(df.rows[i])], Fit(new_entry))]

\* amount < 0 in place of amount <= 0
AmountRejectedStrict(amount) == amount < 0

\* Line 74
AmountRejected(amount) == amount <= 0

\* df.iloc[1:] in place of df.iloc[:-1]
DropFirst(rows) == SubSeq(rows, 2, Len(rows))

\* Line 98: df.iloc[:-1]
DropLast(rows) == SubSeq(rows, 1, Len(rows) - 1)

RECURSIVE DropRows(_, _, _)
\* Lines 183-184: data.drop(index=selected_rows).reset_index(drop=True),
\* from label i on.
DropRows(rows, S, i) ==
    IF i >= Len(rows) THEN <<>>
    ELSE (IF i \in S THEN <<>> ELSE <<rows[i + 1]>>) \o DropRows(rows, S, i + 1)

----------------------------------------------------------------------------
(* The script runs, one per button *)

Init ==
    /\ file = ToExcel(EmptyDf)
    /\ op = "start"
    /\ entry = NoEntry
    /\ selected = {}
    /\ outcome = Message("none", "", 0, 0)
    /\ io = <<>>
    /\ loaded = NoLoad
    /\ fault = "none"
    /\ added = [only |-> TRUE, entries |-> <<>>]

NotOnlyAdds == [only |-> FALSE, entries |-> <<>>]

\* Lines 73-91. The outcome of a rejected request records the amount asked.
AddEntry(category, amount, txn_type, note, now, flt) ==
    LET f1 == AtHandler(file, flt)
        df == LoadData(f1, flt)
        new_entry == MkRow(Strftime(now), category, amount, txn_type, Text(note))
    IN /\ op' = "add"
       /\ selected' = {}
       /\ fault' = flt
       /\ loaded' = NoLoad
       /\ IF AmountRejected(amount)
          THEN /\ flt = "none"
               /\ entry' = NoEntry
               /\ file' = f1
               /\ outcome' = Message("error", "", amount, 0)
               /\ io' = <<>>
               /\ added' = added
          ELSE /\ Len(df.rows) < MaxRows
               /\ entry' = new_entry
               /\ file' = SaveData(f1, Concat(df, new_entry), flt)
               /\ outcome' = IF SaveFails(flt) THEN Message("exception", "", 0, 0)
                             ELSE Message("success", category, amount, 0)
               /\ io' = <<"load", "save">>
               /\ added' = IF added.only /\ flt = "none"
                           THEN [added EXCEPT !.entries = Append(@, new_entry)]
                           ELSE NotOnlyAdds

\* Lines 94-106
RemoveLast(flt) ==
    LET f1 == AtHandler(file, flt)
        df == LoadData(f1, flt)
    IN /\ op' = "remove"
       /\ entry' = NoEntry
       /\ selected' = {}
       /\ fault' = flt
       /\ loaded' = NoLoad
       /\ added' = NotOnlyAdds
       /\ IF df.rows # <<>>
          THEN LET removed == df.rows[Len(df.rows)]
               IN /\ file' = SaveData(f1, [df EXCEPT !.rows = DropLast(df.rows)], flt)
                  /\ outcome' = IF SaveFails(flt) THEN Message("exception", "", 0, 0)
                                ELSE Message("removed", removed["Category"],
                                             removed["Amount (INR)"], 0)
                  /\ io' = <<"load", "save">>
          ELSE /\ ~SaveFails(flt)
               /\ file' = f1
               /\ outcome' = Message("info", "", 0, 0)
               /\ io' = <<"load">>

\* Lines 120-148 and 170-186: the view is drawn for selected_month and show,
\* rows of it are selected, and the button (enabled by a selection) is pressed.
DeleteSelected(selected_month, show, selected_rows, flt) ==
    LET f1 == AtHandler(file, flt)
        raw == LoadData(f1, flt)
        data == Tab2Data(raw)
    IN /\ raw.rows # <<>>
       /\ selected_month \in Range(MonthOptions(data))
       /\ selected_rows # {}
       /\ selected_rows \subseteq FilteredIndex(data, selected_month, show)
       /\ op' = "delete"
       /\ entry' = NoEntry
       /\ selected' = selected_rows
       /\ fault' = flt
       /\ loaded' = NoLoad
       /\ added' = NotOnlyAdds
       /\ file' = SaveData(f1, [data EXCEPT !.rows = DropRows(data.rows, selected_rows, 0)],
                           flt)
       /\ outcome' = IF SaveFails(flt) THEN Message("exception", "", 0, 0)
                     ELSE Message("deleted", "", 0, Cardinality(selected_rows))
       /\ io' = <<"load", "save">>

\* A rerun with no button pressed: line 110 loads the ledger to show its tail.
View(flt) ==
    LET f1 == AtHandler(file, flt)
    IN /\ ~SaveFails(flt)
       /\ op' = "view"
       /\ entry' = NoEntry
       /\ selected' = {}
       /\ fault' = flt
       /\ file' = f1
       /\ outcome' = Message("none", "", 0, 0)
       /\ io' = <<"load">>
       /\ loaded' = LoadData(f1, flt)
       /\ added' = IF flt = "none" THEN added ELSE NotOnlyAdds

----------------------------------------------------------------------------
(* The environment: the workbook is a file other programs can touch *)

BadDateText == [k |-> "str", v |-> <<0>>]

External ==
    /\ op' = "external"
    /\ entry' = NoEntry
    /\ selected' = {}
    /\ outcome' = Message("none", "", 0, 0)
    /\ io' = <<>>
    /\ loaded' = NoLoad
    /\ fault' = "none"
    /\ added' = NotOnlyAdds

\* A Date cell is overwritten, in a spreadsheet program, with text that is no date.
ExternalEdit(i) ==
    /\ file.state = "ok"
    /\ i \in 1..Len(file.rows)
    /\ file' = [file EXCEPT !.rows[i]["Date"] = BadDateText]
    /\ External

\* The workbook is removed, or replaced by something that is no workbook.
ExternalDamage(f) ==
    /\ file.state = "ok"
    /\ file' = f
    /\ External

----------------------------------------------------------------------------
(* Input sets and specifications *)

Notes == {"", "rent"}

Clock == {<<2024, 1, 5, 10, 30>>, <<2024, 2, 1, 9, 0>>}

Months == {<<2024, 1>>, <<2024, 2>>, <<>>}

Labels == 0..(MaxRows - 1)

Faults == {"none", "read_fail", "deleted", "save_denied", "save_interrupted"}

\* The ledger: entries differ in their note and their time.
Next ==
    \/ \E a \in {0, 100}, n \in Notes, now \in Clock :
          AddEntry("Food", a, "Expense", n, now, "none")
    \/ RemoveLast("none")
    \/ \E m \in Months, s \in Range(ShowOptions), S \in SUBSET Labels :
          DeleteSelected(m, s, S, "none")
    \/ View("none")

Spec == Init /\ [][Next]_vars

\* The summary: entries differ in their category and their type.
NextSummary ==
    \/ \E c \in Range(CATEGORIES), t \in Range(TxnTypes) :
          AddEntry(c, 100, t, "", <<2024, 1, 5, 10, 30>>, "none")
    \/ RemoveLast("none")
    \/ \E m \in Months, s \in Range(ShowOptions), S \in SUBSET Labels :
          DeleteSelected(m, s, S, "none")
    \/ View("none")

SpecSummary == Init /\ [][NextSummary]_vars

\* The ledger with a file that is edited from outside.
NextEdit ==
    \/ \E now \in Clock : AddEntry("Food", 100, "Expense", "", now, "none")
    \/ RemoveLast("none")
    \/ \E m \in Months, s \in Range(ShowOptions), S \in SUBSET Labels :
          DeleteSelected(m, s, S, "none")
    \/ View("none")
    \/ \E i \in 1..MaxRows : ExternalEdit(i)

SpecEdit == Init /\ [][NextEdit]_vars

\* The ledger in its environment: reads and saves can fail, the file can be
\* removed or damaged from outside.
NextFault ==
    \/ \E n \in Notes, f \in Faults :
          AddEntry("Food", 100, "Expense", n, <<2024, 1, 5, 10, 30>>, f)
    \/ \E f \in Faults : RemoveLast(f)
    \/ \E m \in Months, s \in Range(ShowOptions), S \in SUBSET Labels,
          f \in Faults : DeleteSelected(m, s, S, f)
    \/ \E f \in Faults : View(f)
    \/ \E f \in {Missing, Corrupt} : ExternalDamage(f)

SpecFault == Init /\ [][NextFault]_vars

----------------------------------------------------------------------------
(* Properties *)

Loaded == LoadData(file, "none")

Summary == Tab2Data(Loaded)

Parseable(d) == d.k = "dt" \/ (d.k = "str" /\ IsDateFields(d.v))

LastRow(f) == f.rows[Len(f.rows)]

\* C1: starting from the empty ledger, after every sequence of accepted Add
\* Entry operations load_data returns exactly the entries given so far, in
\* the order given, with the field values given.
C1_RoundTrip ==
    added.only => Loaded = [columns |-> COLUMNS, rows |-> added.entries]

\* C2: Delete Selected Rows leaves exactly the original entries at the
\* positions not selected, equal to the originals in every field and in
\* their original order, and reports the number of rows selected.
C2_DeleteKeepsOthers ==
    [][op' = "delete" =>
          /\ LoadData(file', "none") =
                 [LoadData(file, "none") EXCEPT !.rows = DropRows(@, selected', 0)]
          /\ outcome'.n = Cardinality(selected')]_vars

\* C3: the persisted file always has exactly the five columns Date, Category,
\* Amount (INR), Type, Note in that order, and every stored Date is text of
\* the form YYYY-MM-DD HH:MM.
C3_FileLayout ==
    /\ file.columns = COLUMNS
    /\ \A i \in 1..Len(file.rows) :
          /\ file.rows[i]["Date"].k = "str"
          /\ IsDateFields(file.rows[i]["Date"].v)

\* C4: the months offered are the distinct year-month keys of the dates that
\* parse, sorted descending, and a transaction whose Date does not parse is in
\* no month's filtered view.
C4_UnparseableExcluded ==
    LET ok == {i \in 1..Len(Loaded.rows) : Parseable(Loaded.rows[i]["Date"])}
        keys == {<<ToDatetime(Loaded.rows[i]["Date"]).v[1],
                   ToDatetime(Loaded.rows[i]["Date"]).v[2]>> : i \in ok}
    IN /\ MonthOptions(Summary) = SortedDesc(keys)
       /\ \A m \in Range(MonthOptions(Summary)), s \in Range(ShowOptions) :
             \A i \in FilteredIndex(Summary, m, s) : (i + 1) \in ok

\* The frame the last handler meant to save.
NewLedger ==
    LET df == LoadData(Initialize(file), "none")
    IN CASE op' = "add" -> Concat(df, entry')
         [] op' = "remove" -> [df EXCEPT !.rows = DropLast(@)]
         [] OTHER -> [Tab2Data(df) EXCEPT !.rows = DropRows(@, selected', 0)]

\* C5: when a save is interrupted part-way, the next load observes the
\* complete prior ledger or the complete new ledger, never a partial file and
\* never an empty ledger in its place.
C5_AtomicSave ==
    [][fault' = "save_interrupted" =>
          \/ LoadData(file', "none") = LoadData(Initialize(file), "none")
          \/ LoadData(file', "none") = ReadExcel(ToExcel(NewLedger))]_vars

\* C6: Remove Last Entry on an empty ledger makes no save, leaves the file as
\* it was and shows "No entries to remove"; on a non-empty ledger it saves the
\* ledger without its final entry and reports that entry.
C6_RemoveLast ==
    [][op' = "remove" =>
          IF file.rows = <<>>
          THEN /\ io' = <<"load">>
               /\ file' = file
               /\ outcome' = Message("info", "", 0, 0)
          ELSE /\ io' = <<"load", "save">>
               /\ file'.state = "ok"
               /\ file'.columns = file.columns
               /\ file'.rows = SubSeq(file.rows, 1, Len(file.rows) - 1)
               /\ outcome' = Message("removed", LastRow(file)["Category"],
                                     LastRow(file)["Amount (INR)"], 0)]_vars

C6_Witness ==
    /\ op = "remove"
    /\ outcome.kind = "removed"
    /\ Len(file.rows) >= 2
    /\ file.rows[1] # file.rows[2]

\* C7: an Add Entry whose amount is not positive is rejected before the
\* store: no load, no save, the file unchanged; every entry appended by Add
\* Entry has a positive amount.
C7_AmountValidated ==
    [][op' = "add" =>
          LET rejected == outcome'.kind = "error"
              amount == IF rejected THEN outcome'.amt ELSE entry'["Amount (INR)"]
          IN /\ rejected <=> amount <= 0
             /\ rejected => (file' = file /\ io' = <<>>)
             /\ ~rejected =>
                   /\ Len(file'.rows) = Len(file.rows) + 1
                   /\ LastRow(file')["Amount (INR)"] = amount
                   /\ amount > 0]_vars

C7_Witness ==
    /\ op = "add"
    /\ outcome.kind = "error"
    /\ outcome.amt = 0
    /\ Len(file.rows) >= 1

RECURSIVE SumTotals(_)
SumTotals(g) == IF g = <<>> THEN 0 ELSE g[1].total + SumTotals(SubSeq(g, 2, Len(g)))

\* C8: for every month and type filter, the category totals add up to the sum
\* of Amount over the filtered rows, a category appears only if it has a
\* filtered row, and the categories are in descending order of total.
C8_Totals ==
    \A m \in Range(MonthOptions(Summary)), s \in Range(ShowOptions) :
        LET idx == FilteredIndex(Summary, m, s)
            g == Grouped(Summary, idx)
        IN /\ SumTotals(g) = SumAmounts(Summary.rows, idx)
           /\ {g[j].cat : j \in 1..Len(g)} = {Summary.rows[i + 1]["Category"] : i \in idx}
           /\ Len(g) = Cardinality({g[j].cat : j \in 1..Len(g)})
           /\ \A j \in 1..(Len(g) - 1) : g[j].total >= g[j + 1].total

C8_Witness ==
    \E m \in Range(MonthOptions(Summary)), s \in Range(ShowOptions) :
        LET idx == FilteredIndex(Summary, m, s)
            g == Grouped(Summary, idx)
        IN /\ Cardinality(idx) = 3
           /\ Len(g) = 2
           /\ g[1].cat = "Housing"
           /\ g[1].total > g[2].total

\* C9: load_data never raises: for a missing, unreadable or corrupt file it
\* returns the empty ledger with the five standard columns, and otherwise
\* the full stored sequence in stored order.
C9_LoadFailSoft ==
    [][op' = "view" =>
          IF file.state # "ok" \/ fault' \in {"read_fail", "deleted"}
          THEN loaded' = [columns |-> COLUMNS, rows |-> <<>>]
          ELSE /\ loaded'.columns = file.columns
               /\ Len(loaded'.rows) = Len(file.rows)
               /\ \A i \in 1..Len(file.rows) : loaded'.rows[i] = file.rows[i]]_vars

C9_Witness ==
    /\ op = "view"
    /\ fault = "read_fail"
    /\ file.state = "ok"
    /\ Len(file.rows) >= 2
    /\ loaded = EmptyDf

\* C10: an accepted Add Entry never loses persisted entries: afterwards the
\* file holds the rows it held before, followed by the new entry, also when
\* the load inside the add failed.
C10_AddKeepsPrevious ==
    [][(op' = "add" /\ outcome'.kind = "success" /\ fault' \in {"none", "read_fail"}) =>
          /\ Len(file'.rows) = Len(file.rows) + 1
          /\ \A i \in 1..Len(file.rows) : file'.rows[i] = file.rows[i]
          /\ \A c \in {"Date", "Category", "Amount (INR)", "Type"} :
                LastRow(file')[c] = entry'[c]]_vars

====
